---- MODULE Spec2Model ----
(***************************************************************************)
(* Model of crate2nix/src/sources.rs: FetchedSources, the manager of the   *)
(* out-of-tree sources of a project directory.                             *)
(*                                                                         *)
(* The state is the part of the project directory the code looks at        *)
(* (crate2nix.json, crate2nix-sources.nix, the crate2nix-sources symlink), *)
(* the wall clock, and the position of the one synchronous call that is    *)
(* in progress.  A call is a chain of steps taken in the order of the      *)
(* source; files are edited from outside only between calls.               *)
(***************************************************************************)
EXTENDS Integers, Sequences, FiniteSets, TLC

\* ------------------------------------------------------------------ bounds
MaxTime == 2
MaxLines == 2
MaxEntries == 2

\* ------------------------------------------------------- program constants
\* SystemTime::UNIX_EPOCH
UNIX_EPOCH == 0
\* Option::None of last_modified
NoTime == -1

Times == UNIX_EPOCH..MaxTime

\* A line of crate2nix-sources.nix, as BufRead::lines sees it:
\*   "generated"              valid UTF-8, contains "@generated by crate2nix"
\*   "plain"                  valid UTF-8, does not contain it
\*   "generated_invalid_utf8" contains the marker bytes, but the line is not
\*                            valid UTF-8, so lines() yields Err for it
Line == {"generated", "plain", "generated_invalid_utf8"}

RECURSIVE SeqsUpTo(_)
SeqsUpTo(n) ==
    IF n = 0 THEN {<<>>}
    ELSE SeqsUpTo(n - 1) \cup [1..n -> Line]

Contents == SeqsUpTo(MaxLines)

VARIABLES
    cfgExists,        \* crate2nix_json_path.exists()
    cfgMtime,         \* modification time of crate2nix.json, NoTime if unreadable
    cfgValid,         \* crate2nix.json parses as a Config
    cfgNix,           \* some source of the Config is Source::Nix
    nixExists,        \* sources_nix().exists()
    nixOpenable,      \* File::open(sources_nix()) succeeds
    nixLines,         \* the lines of crate2nix-sources.nix
    linkState,        \* crate2nix-sources: "absent", "dir" or "dangling"
    linkMtime,        \* modification time of the symlink itself, NoTime if unreadable
    now,              \* SystemTime::now()
    op,               \* the public method being called: "none", "regenerate_sources_nix", "fetch", "get_cargo_tomls"
    pc,               \* position inside the call
    has_nix_sources,  \* local of get_cargo_tomls
    result,           \* what the call returned, "none" while running
    log,              \* effects of the current call, in order
    nix0,             \* crate2nix-sources.nix when the call started
    link0,            \* the crate2nix-sources symlink when the call started
    prior,            \* "refetched" when the previous call was a get_cargo_tomls that
                      \* found the configuration newer than the symlink and whose
                      \* executor run succeeded, and nothing was edited since;
                      \* "crashed" when the previous run died inside write_to_file
    crate2nix_json_path, \* the field of FetchedSources: a path, as its components
    commands,         \* the child processes the current call has spawned, in order
    outDir,           \* what read_dir yields for crate2nix-sources, in iteration order
    idx,              \* number of entries the loop of get_cargo_tomls has consumed
    cargo_tomls,      \* local of get_cargo_tomls
    warnings,         \* the WARNING messages written to stderr by the scan
    returned,         \* the value get_cargo_tomls returned from the scan
    prefetch,         \* the prefetch capability: a fixed map from source to result
    hcall,            \* the hash-completion call in progress
    hpc,              \* position inside crates_io_source / git_io_source
    stderr,           \* what the hash-completion call has written to stderr
    prefetched,       \* the prefetch invocations of the current call, with their results
    hret,             \* what the hash-completion call returned
    hlast             \* call and result of the previous hash-completion call

fsvars == <<cfgExists, cfgMtime, cfgValid, cfgNix, nixExists, nixOpenable, nixLines, linkState, linkMtime>>
vars == <<cfgExists, cfgMtime, cfgValid, cfgNix, nixExists, nixOpenable, nixLines, linkState, linkMtime,
          now, op, pc, has_nix_sources, result, log, nix0, link0, prior,
          crate2nix_json_path, commands,
          outDir, idx, cargo_tomls, warnings, returned,
          prefetch, hcall, hpc, stderr, prefetched, hret, hlast>>
scanvars == <<outDir, idx, cargo_tomls, warnings, returned>>
hashvars == <<prefetch, hcall, hpc, stderr, prefetched, hret, hlast>>
\* what the regenerate / fetch / staleness steps never touch
othervars == <<crate2nix_json_path, scanvars, hashvars>>

NoFile == [exists |-> FALSE, openable |-> TRUE, lines |-> <<>>]
NoLink == [state |-> "absent", mtime |-> NoTime]
sources_nix == [exists |-> nixExists, openable |-> nixOpenable, lines |-> nixLines]
fetched_sources_symlink == [state |-> linkState, mtime |-> linkMtime]

\* ------------------------------------------------------------------ paths
\* const FETCHED_SOURCES
FETCHED_SOURCES == "crate2nix-sources"

\* A path is the sequence of its components.  A component is valid UTF-8,
\* except "proj_invalid_utf8", which holds a byte that is not.
\* Path::to_string_lossy puts U+FFFD in the place of such bytes.
to_string_lossy(path) ==
    [i \in 1..Len(path) |->
        IF path[i] = "proj_invalid_utf8" THEN "proj_U+FFFD" ELSE path[i]]

\* Path::parent
parent(path) == SubSeq(path, 1, Len(path) - 1)

\* Path::join
join(path, name) == Append(path, name)

\* FetchedSources::project_dir
project_dir == parent(crate2nix_json_path)

\* FetchedSources::sources_nix, the path
sources_nix_path == join(project_dir, "crate2nix-sources.nix")

\* let fetched_sources_symlink = self.project_dir().join(FETCHED_SOURCES)
fetched_sources_symlink_path == join(project_dir, FETCHED_SOURCES)

\* the Command that download_and_link_out_of_tree_sources hands to command::run
download_and_link_out_of_tree_sources(dir, nix, symlink, nix_attr) ==
    [program |-> "nix",
     current_dir |-> to_string_lossy(dir),
     args |-> <<"--show-trace", "build", "-f", to_string_lossy(nix), nix_attr,
                "-o", to_string_lossy(symlink)>>]

\* the call of fetch, lines 111-116
FetchCommand ==
    download_and_link_out_of_tree_sources(
        project_dir, sources_nix_path, fetched_sources_symlink_path, "fetchedSources")

\* --------------------------------------------- values of the idle machines
NoReturn == [ok |-> FALSE, tomls |-> <<>>, error |-> <<>>]
ScanIdle ==
    /\ outDir = <<>>
    /\ idx = 0
    /\ cargo_tomls = <<>>
    /\ warnings = <<>>
    /\ returned = NoReturn

NoHashCall == [fn |-> "none", a |-> "", b |-> ""]
NoHashRet == [ok |-> FALSE, error |-> "none"]
HashIdle ==
    /\ hcall = NoHashCall
    /\ hpc = "idle"
    /\ stderr = <<>>
    /\ prefetched = <<>>
    /\ hret = NoHashRet
    /\ hlast = [call |-> NoHashCall, ret |-> NoHashRet]

\* ------------------------------------------------------------ pure helpers

\* l.map(|l| l.contains("@generated by crate2nix")).unwrap_or(false)
LineGenerated(l) == l = "generated"

\* the marker looked for in the first line only
generated_first_line(lines) == Len(lines) >= 1 /\ LineGenerated(lines[1])

\* a marker text that no line contains
generated_never(lines) == FALSE

\* all() where the code has any()
generated_all(lines) == \A i \in 1..Len(lines) : LineGenerated(lines[i])

\* reader.lines().any(...)
generated(lines) == \E i \in 1..Len(lines) : LineGenerated(lines[i])

\* last_modified: symlink_metadata(f).ok().and_then(|m| m.modified().ok())
last_modified(exists, mtime) == IF exists THEN mtime ELSE NoTime

\* <= where the code has <
outdated_or_equal ==
    LET lmLink == last_modified(linkState # "absent", linkMtime)
        lmCfg == last_modified(cfgExists, cfgMtime)
        symlink_generated == IF lmLink = NoTime THEN UNIX_EPOCH ELSE lmLink
        sources_modified == IF lmCfg = NoTime THEN now ELSE lmCfg
    IN  symlink_generated <= sources_modified

\* the closure outdated of get_cargo_tomls
outdated ==
    LET lmLink == last_modified(linkState # "absent", linkMtime)
        lmCfg == last_modified(cfgExists, cfgMtime)
        symlink_generated == IF lmLink = NoTime THEN UNIX_EPOCH ELSE lmLink
        sources_modified == IF lmCfg = NoTime THEN now ELSE lmCfg
    IN  symlink_generated < sources_modified

\* Config::read_from_or_default: the default Config when the file is missing
ConfigReadable == ~cfgExists \/ cfgValid
ConfigHasNix == cfgExists /\ cfgNix

\* what SOURCES_NIX.write_to_file renders: the marker line and the body
Rendered == <<"generated", "plain">>

\* the states a failed write_to_file can leave the file in: not created or
\* not truncated, truncated, or any proper prefix of the rendering
RECURSIVE Prefixes(_, _)
Prefixes(s, n) ==
    IF n = 0 THEN {<<>>}
    ELSE Prefixes(s, n - 1) \cup {SubSeq(s, 1, n)}

PartialWrites == Prefixes(Rendered, Len(Rendered) - 1)

\* ------------------------------------------------------------------- Init
\* a project with its configuration, nothing generated or fetched yet
ProjectInit ==
    /\ cfgExists = TRUE
    /\ cfgMtime = UNIX_EPOCH + 1
    /\ cfgValid = TRUE
    /\ cfgNix = FALSE
    /\ nixExists = FALSE
    /\ nixOpenable = TRUE
    /\ nixLines = <<>>
    /\ linkState = "absent"
    /\ linkMtime = NoTime
    /\ now = UNIX_EPOCH + 1
    /\ op = "none"
    /\ pc = "idle"
    /\ has_nix_sources = FALSE
    /\ result = "none"
    /\ log = <<>>
    /\ nix0 = NoFile
    /\ link0 = NoLink
    /\ prior = "none"
    /\ crate2nix_json_path = <<"project", "crate2nix.json">>
    /\ commands = <<>>

Init ==
    /\ ProjectInit
    /\ ScanIdle
    /\ prefetch = <<>>
    /\ HashIdle

\* --------------------------------------------------------- the environment
Idle == pc = "idle"
callvars == <<op, pc, has_nix_sources, result, log, nix0, link0>>

EditConfig ==
    /\ Idle
    /\ cfgExists' = TRUE
    /\ cfgMtime' \in Times \cup {NoTime}
    /\ cfgValid' \in BOOLEAN
    /\ cfgNix' \in BOOLEAN
    /\ cfgValid' = FALSE => cfgNix' = FALSE
    /\ UNCHANGED <<nixExists, nixOpenable, nixLines, linkState, linkMtime, now>>
    /\ UNCHANGED callvars
    /\ prior' = "none"
    /\ UNCHANGED othervars
    /\ UNCHANGED commands

DeleteConfig ==
    /\ Idle
    /\ cfgExists
    /\ cfgExists' = FALSE
    /\ cfgMtime' = NoTime
    /\ cfgValid' = TRUE
    /\ cfgNix' = FALSE
    /\ UNCHANGED <<nixExists, nixOpenable, nixLines, linkState, linkMtime, now>>
    /\ UNCHANGED callvars
    /\ prior' = "none"
    /\ UNCHANGED othervars
    /\ UNCHANGED commands

EditDescriptor ==
    /\ Idle
    /\ nixExists' = TRUE
    /\ nixOpenable' \in BOOLEAN
    /\ nixLines' \in Contents
    /\ UNCHANGED <<cfgExists, cfgMtime, cfgValid, cfgNix, linkState, linkMtime, now>>
    /\ UNCHANGED callvars
    /\ prior' = "none"
    /\ UNCHANGED othervars
    /\ UNCHANGED commands

DeleteDescriptor ==
    /\ Idle
    /\ nixExists
    /\ nixExists' = FALSE
    /\ nixOpenable' = TRUE
    /\ nixLines' = <<>>
    /\ UNCHANGED <<cfgExists, cfgMtime, cfgValid, cfgNix, linkState, linkMtime, now>>
    /\ UNCHANGED callvars
    /\ prior' = "none"
    /\ UNCHANGED othervars
    /\ UNCHANGED commands

EditSymlink ==
    /\ Idle
    /\ linkState' \in {"dir", "dangling"}
    /\ linkMtime' \in Times \cup {NoTime}
    /\ UNCHANGED <<cfgExists, cfgMtime, cfgValid, cfgNix, nixExists, nixOpenable, nixLines, now>>
    /\ UNCHANGED callvars
    /\ prior' = "none"
    /\ UNCHANGED othervars
    /\ UNCHANGED commands

DeleteSymlink ==
    /\ Idle
    /\ linkState # "absent"
    /\ linkState' = "absent"
    /\ linkMtime' = NoTime
    /\ UNCHANGED <<cfgExists, cfgMtime, cfgValid, cfgNix, nixExists, nixOpenable, nixLines, now>>
    /\ UNCHANGED callvars
    /\ prior' = "none"
    /\ UNCHANGED othervars
    /\ UNCHANGED commands

Tick ==
    /\ now < MaxTime
    /\ now' = now + 1
    /\ UNCHANGED fsvars
    /\ UNCHANGED callvars
    /\ UNCHANGED prior
    /\ UNCHANGED othervars
    /\ UNCHANGED commands

\* ------------------------------------------------------------ the methods
Begin(method, at) ==
    /\ Idle
    /\ op' = method
    /\ pc' = at
    /\ nix0' = sources_nix
    /\ link0' = fetched_sources_symlink
    /\ UNCHANGED <<has_nix_sources, result, log, now, prior>>
    /\ UNCHANGED fsvars
    /\ UNCHANGED othervars
    /\ UNCHANGED commands

CallRegenerate == Begin("regenerate_sources_nix", "regen_config")
CallFetch == Begin("fetch", "regen_config")
CallGetCargoTomls == Begin("get_cargo_tomls", "read_config")

Finish(r) ==
    /\ pc' = "done"
    /\ result' = r

\* get_cargo_tomls, lines 131-137
ReadConfig ==
    /\ pc = "read_config"
    /\ IF ConfigReadable
         THEN /\ has_nix_sources' = ConfigHasNix
              /\ pc' = "decide"
              /\ UNCHANGED result
         ELSE /\ Finish("ConfigParseError")
              /\ UNCHANGED has_nix_sources
    /\ UNCHANGED <<op, log, nix0, link0, prior, now>>
    /\ UNCHANGED fsvars
    /\ UNCHANGED othervars
    /\ UNCHANGED commands

\* the fetch run on every call
DecideAlwaysFetch ==
    /\ pc = "decide"
    /\ pc' = "regen_config"
    /\ log' = Append(log, "fetch")
    /\ UNCHANGED <<op, has_nix_sources, result, nix0, link0, prior, now>>
    /\ UNCHANGED fsvars
    /\ UNCHANGED othervars
    /\ UNCHANGED commands

\* the decision taken on the timestamps alone
DecideTimestampsOnly ==
    /\ pc = "decide"
    /\ IF outdated
         THEN /\ pc' = "regen_config"
              /\ log' = Append(log, "fetch")
         ELSE /\ pc' = "scan"
              /\ UNCHANGED log
    /\ UNCHANGED <<op, has_nix_sources, result, nix0, link0, prior, now>>
    /\ UNCHANGED fsvars
    /\ UNCHANGED othervars
    /\ UNCHANGED commands

\* get_cargo_tomls, lines 138-148: if has_nix_sources || outdated() { self.fetch()? }
Decide ==
    /\ pc = "decide"
    /\ IF has_nix_sources \/ outdated
         THEN /\ pc' = "regen_config"
              /\ log' = Append(log, "fetch")
         ELSE /\ pc' = "scan"
              /\ UNCHANGED log
    /\ UNCHANGED <<op, has_nix_sources, result, nix0, link0, prior, now>>
    /\ UNCHANGED fsvars
    /\ UNCHANGED othervars
    /\ UNCHANGED commands

\* the existence check of the configuration left out
RegenConfigUnchecked ==
    /\ pc = "regen_config"
    /\ pc' = "regen_marker"
    /\ UNCHANGED <<op, has_nix_sources, result, log, nix0, link0, prior, now>>
    /\ UNCHANGED fsvars
    /\ UNCHANGED othervars
    /\ UNCHANGED commands

\* regenerate_sources_nix, lines 82-87
RegenConfig ==
    /\ pc = "regen_config"
    /\ IF ~cfgExists
         THEN Finish("ConfigNotFound")
         ELSE /\ pc' = "regen_marker"
              /\ UNCHANGED result
    /\ UNCHANGED <<op, has_nix_sources, log, nix0, link0, prior, now>>
    /\ UNCHANGED fsvars
    /\ UNCHANGED othervars
    /\ UNCHANGED commands

\* regenerate_sources_nix, lines 89-98
RegenMarker ==
    /\ pc = "regen_marker"
    /\ IF nixExists /\ ~nixOpenable
         THEN Finish("IoError")
         ELSE IF nixExists /\ ~generated(nixLines)
                THEN Finish("RefuseOverwrite")
                ELSE /\ pc' = "regen_write"
                     /\ UNCHANGED result
    /\ UNCHANGED <<op, has_nix_sources, log, nix0, link0, prior, now>>
    /\ UNCHANGED fsvars
    /\ UNCHANGED othervars
    /\ UNCHANGED commands

\* the error of write_to_file dropped
RegenWriteIgnoreError ==
    /\ pc = "regen_write"
    /\ \/ /\ nixExists' = TRUE
          /\ nixOpenable' = TRUE
          /\ nixLines' = Rendered
          /\ log' = Append(log, "write_ok")
       \/ /\ \/ UNCHANGED <<nixExists, nixOpenable, nixLines>>
             \/ /\ nixExists' = TRUE
                /\ nixOpenable' = TRUE
                /\ nixLines' \in PartialWrites
          /\ log' = Append(log, "write_err")
    /\ IF op = "regenerate_sources_nix"
         THEN Finish("Ok")
         ELSE /\ pc' = "exec"
              /\ UNCHANGED result
    /\ UNCHANGED <<cfgExists, cfgMtime, cfgValid, cfgNix, linkState, linkMtime>>
    /\ UNCHANGED <<op, has_nix_sources, nix0, link0, prior, now>>
    /\ UNCHANGED othervars
    /\ UNCHANGED commands

\* the configuration saved again along with the descriptor
RegenWriteTouchConfig ==
    /\ pc = "regen_write"
    /\ \/ /\ nixExists' = TRUE
          /\ nixOpenable' = TRUE
          /\ nixLines' = Rendered
          /\ log' = Append(log, "write_ok")
          /\ IF op = "regenerate_sources_nix"
               THEN Finish("Ok")
               ELSE /\ pc' = "exec"
                    /\ UNCHANGED result
       \/ /\ \/ UNCHANGED <<nixExists, nixOpenable, nixLines>>
             \/ /\ nixExists' = TRUE
                /\ nixOpenable' = TRUE
                /\ nixLines' \in PartialWrites
          /\ log' = Append(log, "write_err")
          /\ Finish("IoError")
    /\ cfgMtime' = now
    /\ UNCHANGED <<cfgExists, cfgValid, cfgNix, linkState, linkMtime>>
    /\ UNCHANGED <<op, has_nix_sources, nix0, link0, prior, now>>
    /\ UNCHANGED othervars
    /\ UNCHANGED commands

\* regenerate_sources_nix, lines 100-102
RegenWrite ==
    /\ pc = "regen_write"
    /\ \/ /\ nixExists' = TRUE
          /\ nixOpenable' = TRUE
          /\ nixLines' = Rendered
          /\ log' = Append(log, "write_ok")
          /\ IF op = "regenerate_sources_nix"
               THEN Finish("Ok")
               ELSE /\ pc' = "exec"
                    /\ UNCHANGED result
       \/ /\ \/ UNCHANGED <<nixExists, nixOpenable, nixLines>>
             \/ /\ nixExists' = TRUE
                /\ nixOpenable' = TRUE
                /\ nixLines' \in PartialWrites
          /\ log' = Append(log, "write_err")
          /\ Finish("IoError")
    /\ UNCHANGED <<cfgExists, cfgMtime, cfgValid, cfgNix, linkState, linkMtime>>
    /\ UNCHANGED <<op, has_nix_sources, nix0, link0, prior, now>>
    /\ UNCHANGED othervars
    /\ UNCHANGED commands

\* The process dies inside write_to_file (line 100): before the file is
\* created or truncated, or after, with any part of the rendering written.
CrashInWrite ==
    /\ pc = "regen_write"
    /\ \/ UNCHANGED <<nixExists, nixOpenable, nixLines>>
       \/ /\ nixExists' = TRUE
          /\ nixOpenable' = TRUE
          /\ nixLines' \in PartialWrites \cup {Rendered}
    /\ pc' = "idle"
    /\ op' = "none"
    /\ has_nix_sources' = FALSE
    /\ result' = "none"
    /\ log' = <<>>
    /\ nix0' = NoFile
    /\ link0' = NoLink
    /\ commands' = <<>>
    /\ prior' = "crashed"
    /\ UNCHANGED <<cfgExists, cfgMtime, cfgValid, cfgNix, linkState, linkMtime, now>>
    /\ UNCHANGED othervars

\* how crate::command::run fails: the child exits non-zero, or cannot be spawned
ExecFailures == {"exec_nonzero", "exec_nospawn"}

\* a failed executor run ignored: the call goes on with what is on disk
ExecIgnoreFailure ==
    /\ pc = "exec"
    /\ \/ /\ linkState' = "dir"
          /\ linkMtime' = now
          /\ log' = Append(log, "exec_ok")
          /\ commands' = Append(commands, FetchCommand)
       \/ /\ UNCHANGED <<linkState, linkMtime>>
          /\ \E why \in ExecFailures : log' = Append(log, why)
          /\ commands' = Append(commands, FetchCommand)
    /\ IF op = "fetch"
         THEN Finish("Ok")
         ELSE /\ pc' = "scan"
              /\ UNCHANGED result
    /\ UNCHANGED <<cfgExists, cfgMtime, cfgValid, cfgNix, nixExists, nixOpenable, nixLines>>
    /\ UNCHANGED <<op, has_nix_sources, nix0, link0, prior, now>>
    /\ UNCHANGED othervars

\* a failed executor run tried once more
ExecRetry ==
    /\ pc = "exec"
    /\ \/ /\ linkState' = "dir"
          /\ linkMtime' = now
          /\ log' = Append(log, "exec_ok")
          /\ commands' = Append(commands, FetchCommand)
          /\ IF op = "fetch"
               THEN Finish("Ok")
               ELSE /\ pc' = "scan"
                    /\ UNCHANGED result
       \/ /\ UNCHANGED <<linkState, linkMtime>>
          /\ \E why \in ExecFailures : log' = Append(log, why)
          /\ commands' = Append(commands, FetchCommand)
          /\ IF \E i \in 1..Len(log) : log[i] \in ExecFailures
               THEN Finish("ExecFailed")
               ELSE UNCHANGED <<pc, result>>
    /\ UNCHANGED <<cfgExists, cfgMtime, cfgValid, cfgNix, nixExists, nixOpenable, nixLines>>
    /\ UNCHANGED <<op, has_nix_sources, nix0, link0, prior, now>>
    /\ UNCHANGED othervars

\* fetch, lines 110-119, and download_and_link_out_of_tree_sources
Exec ==
    /\ pc = "exec"
    /\ \/ /\ linkState' = "dir"
          /\ linkMtime' = now
          /\ log' = Append(log, "exec_ok")
          /\ commands' = Append(commands, FetchCommand)
          /\ IF op = "fetch"
               THEN Finish("Ok")
               ELSE /\ pc' = "scan"
                    /\ UNCHANGED result
       \/ /\ UNCHANGED <<linkState, linkMtime>>
          /\ \E why \in ExecFailures : log' = Append(log, why)
          /\ commands' = Append(commands, FetchCommand)
          /\ Finish("ExecFailed")
    /\ UNCHANGED <<cfgExists, cfgMtime, cfgValid, cfgNix, nixExists, nixOpenable, nixLines>>
    /\ UNCHANGED <<op, has_nix_sources, nix0, link0, prior, now>>
    /\ UNCHANGED othervars

\* get_cargo_tomls, lines 150-188, with the directory left out: the listing
\* fails when crate2nix-sources is not a directory, and it can fail on an entry
Scan ==
    /\ pc = "scan"
    /\ log' = Append(log, "scan")
    /\ \/ linkState = "dir" /\ Finish("Ok")
       \/ Finish("DirectoryReadFailed")
    /\ UNCHANGED <<op, has_nix_sources, nix0, link0, prior, now>>
    /\ UNCHANGED fsvars
    /\ UNCHANGED othervars
    /\ UNCHANGED commands

Return ==
    /\ pc = "done"
    /\ pc' = "idle"
    /\ op' = "none"
    /\ has_nix_sources' = FALSE
    /\ result' = "none"
    /\ log' = <<>>
    /\ nix0' = NoFile
    /\ link0' = NoLink
    /\ prior' = IF /\ op = "get_cargo_tomls"
                     /\ \E i \in 1..Len(log) : log[i] = "exec_ok"
                     /\ ~has_nix_sources
                     /\ link0.state # "absent" /\ link0.mtime # NoTime
                     /\ cfgMtime # NoTime /\ link0.mtime < cfgMtime
                  THEN "refetched" ELSE "none"
    /\ UNCHANGED now
    /\ UNCHANGED fsvars
    /\ UNCHANGED othervars
    /\ commands' = <<>>

Next ==
    \/ EditConfig \/ DeleteConfig \/ EditDescriptor \/ DeleteDescriptor
    \/ EditSymlink \/ DeleteSymlink \/ Tick
    \/ CallRegenerate \/ CallFetch \/ CallGetCargoTomls
    \/ ReadConfig \/ Decide \/ RegenConfig \/ RegenMarker \/ RegenWrite \/ Exec \/ Scan
    \/ Return
    \/ CrashInWrite

Spec == Init /\ [][Next]_vars

\* --------------------------------------------------- the executor's command
\* The paths FetchedSources::new may be given: a configuration in a project
\* directory, one named without a directory, and one in a directory whose
\* name is not valid UTF-8.
ConfigPaths ==
    {<<"project", "crate2nix.json">>,
     <<"crate2nix.json">>,
     <<"proj_invalid_utf8", "crate2nix.json">>}

\* FetchedSources::new(path), on a project with nothing generated or fetched
CmdInit ==
    /\ crate2nix_json_path \in ConfigPaths
    /\ cfgExists = TRUE
    /\ cfgMtime = UNIX_EPOCH + 1
    /\ cfgValid = TRUE
    /\ cfgNix = FALSE
    /\ nixExists = FALSE
    /\ nixOpenable = TRUE
    /\ nixLines = <<>>
    /\ linkState = "absent"
    /\ linkMtime = NoTime
    /\ now = UNIX_EPOCH + 1
    /\ op = "none"
    /\ pc = "idle"
    /\ has_nix_sources = FALSE
    /\ result = "none"
    /\ log = <<>>
    /\ nix0 = NoFile
    /\ link0 = NoLink
    /\ prior = "none"
    /\ commands = <<>>
    /\ ScanIdle
    /\ prefetch = <<>>
    /\ HashIdle

CmdSpec == CmdInit /\ [][Next]_vars

TypeOK ==
    /\ cfgExists \in BOOLEAN /\ cfgValid \in BOOLEAN /\ cfgNix \in BOOLEAN
    /\ cfgMtime \in Times \cup {NoTime}
    /\ nixExists \in BOOLEAN /\ nixOpenable \in BOOLEAN
    /\ linkState \in {"absent", "dir", "dangling"}
    /\ linkMtime \in Times \cup {NoTime}
    /\ now \in Times
    /\ Len(log) <= 4

\* ================================================================ the scan
\* The loop of get_cargo_tomls over the output directory (lines 150-188),
\* entry by entry, started in the states the staleness step leaves: either
\* nothing was fetched and the output is judged fresh, or the fetch cycle has
\* just succeeded.

MemberNames == {"foo", "bar", "baz", "qux"}

\* What read_dir yields for one entry: an error, or an entry that is_dir()
\* finds to be a directory (with or without Cargo.toml and Cargo.lock) or not.
DirEntries ==
    [name : MemberNames, kind : {"dir"}, toml : BOOLEAN, lock : BOOLEAN]
    \cup [name : MemberNames, kind : {"file", "error"}, toml : {FALSE}, lock : {FALSE}]

RECURSIVE ListingsUpTo(_)
ListingsUpTo(n) ==
    IF n = 0 THEN {<<>>}
    ELSE ListingsUpTo(n - 1) \cup
         {l \in [1..n -> DirEntries] : \A i, j \in 1..n : i # j => l[i].name # l[j].name}

Listings == ListingsUpTo(MaxEntries)

ScanInit ==
    /\ crate2nix_json_path = <<"project", "crate2nix.json">>
    /\ cfgExists = TRUE
    /\ cfgMtime \in {UNIX_EPOCH, UNIX_EPOCH + 1}
    /\ cfgValid = TRUE
    /\ cfgNix = FALSE
    /\ now = UNIX_EPOCH + 1
    /\ log \in {<<>>, <<"fetch", "write_ok", "exec_ok">>}
    /\ linkState \in {"absent", "dir", "dangling"}
    /\ linkMtime = IF linkState = "absent" THEN NoTime ELSE UNIX_EPOCH + 1
    /\ IF log = <<>>
         THEN /\ ~outdated
              /\ nixExists = FALSE
              /\ nixLines = <<>>
              /\ commands = <<>>
         ELSE /\ linkState = "dir"
              /\ nixExists = TRUE
              /\ nixLines = Rendered
              /\ commands = <<FetchCommand>>
    /\ nixOpenable = TRUE
    /\ op = "get_cargo_tomls"
    /\ pc = "scan"
    /\ has_nix_sources = FALSE
    /\ result = "none"
    /\ nix0 = sources_nix
    /\ link0 = fetched_sources_symlink
    /\ prior = "none"
    /\ outDir \in IF linkState = "dir" THEN Listings ELSE {<<>>}
    /\ idx = 0
    /\ cargo_tomls = <<>>
    /\ warnings = <<>>
    /\ returned = NoReturn
    /\ prefetch = <<>>
    /\ HashIdle

scanframe == <<fsvars, now, op, has_nix_sources, nix0, link0, prior,
               crate2nix_json_path, commands, hashvars>>

\* format_err!("while ... {} directory: {}", workspace_member_dir.to_string_lossy(), e)
DirectoryReadFailed(what) ==
    [ok |-> FALSE, tomls |-> <<>>,
     error |-> <<what, to_string_lossy(fetched_sources_symlink_path), "directory">>]

\* line 152: std::fs::read_dir(&workspace_member_dir).map_err(...)?
ScanReadDir ==
    /\ pc = "scan"
    /\ log' = Append(log, "scan")
    /\ IF linkState = "dir"
         THEN /\ pc' = "scan_loop"
              /\ UNCHANGED <<result, returned>>
         ELSE /\ Finish("DirectoryReadFailed")
              /\ returned' = DirectoryReadFailed("while iterating")
    /\ UNCHANGED <<outDir, idx, cargo_tomls, warnings>>
    /\ UNCHANGED scanframe

\* eprintln!("WARNING: No Cargo.toml found in {}. ...", path)
Warn(file, path) == <<"WARNING: No", file, "found in", to_string_lossy(path)>>

\* the warnings of one member directory, lines 169-183
MemberWarnings(e, path) ==
    (IF ~e.toml THEN <<Warn("Cargo.toml", path)>> ELSE <<>>)
    \o (IF ~e.lock THEN <<Warn("Cargo.lock", path)>> ELSE <<>>)

\* a member without Cargo.toml left out of the result
ScanEntrySkipMissingToml ==
    /\ pc = "scan_loop"
    /\ idx < Len(outDir)
    /\ LET e == outDir[idx + 1]
           path == join(fetched_sources_symlink_path, e.name)
       IN  IF e.kind = "error"
             THEN /\ Finish("DirectoryReadFailed")
                  /\ returned' = DirectoryReadFailed("while resolving entry in")
                  /\ UNCHANGED <<idx, cargo_tomls, warnings>>
             ELSE /\ idx' = idx + 1
                  /\ IF e.kind = "dir"
                       THEN /\ warnings' = warnings \o MemberWarnings(e, path)
                            /\ cargo_tomls' = IF e.toml
                                               THEN Append(cargo_tomls, join(path, "Cargo.toml"))
                                               ELSE cargo_tomls
                       ELSE UNCHANGED <<cargo_tomls, warnings>>
                  /\ UNCHANGED <<pc, result, returned>>
    /\ UNCHANGED <<outDir, log>>
    /\ UNCHANGED scanframe

\* a missing Cargo.lock made an error
ScanEntryLockFatal ==
    /\ pc = "scan_loop"
    /\ idx < Len(outDir)
    /\ LET e == outDir[idx + 1]
           path == join(fetched_sources_symlink_path, e.name)
       IN  IF e.kind = "error" \/ (e.kind = "dir" /\ ~e.lock)
             THEN /\ Finish("DirectoryReadFailed")
                  /\ returned' = DirectoryReadFailed("while resolving entry in")
                  /\ UNCHANGED <<idx, cargo_tomls, warnings>>
             ELSE /\ idx' = idx + 1
                  /\ IF e.kind = "dir"
                       THEN /\ warnings' = warnings \o MemberWarnings(e, path)
                            /\ cargo_tomls' = Append(cargo_tomls, join(path, "Cargo.toml"))
                       ELSE UNCHANGED <<cargo_tomls, warnings>>
                  /\ UNCHANGED <<pc, result, returned>>
    /\ UNCHANGED <<outDir, log>>
    /\ UNCHANGED scanframe

\* an entry that cannot be resolved skipped
ScanEntrySkipBadEntry ==
    /\ pc = "scan_loop"
    /\ idx < Len(outDir)
    /\ LET e == outDir[idx + 1]
           path == join(fetched_sources_symlink_path, e.name)
       IN  IF FALSE
             THEN UNCHANGED <<idx, cargo_tomls, warnings, pc, result, returned>>
             ELSE /\ idx' = idx + 1
                  /\ IF e.kind = "dir"
                       THEN /\ warnings' = warnings \o MemberWarnings(e, path)
                            /\ cargo_tomls' = Append(cargo_tomls, join(path, "Cargo.toml"))
                       ELSE UNCHANGED <<cargo_tomls, warnings>>
                  /\ UNCHANGED <<pc, result, returned>>
    /\ UNCHANGED <<outDir, log>>
    /\ UNCHANGED scanframe

\* one iteration of the loop, lines 159-185
ScanEntry ==
    /\ pc = "scan_loop"
    /\ idx < Len(outDir)
    /\ LET e == outDir[idx + 1]
           path == join(fetched_sources_symlink_path, e.name)
       IN  IF e.kind = "error"
             THEN /\ Finish("DirectoryReadFailed")
                  /\ returned' = DirectoryReadFailed("while resolving entry in")
                  /\ UNCHANGED <<idx, cargo_tomls, warnings>>
             ELSE /\ idx' = idx + 1
                  /\ IF e.kind = "dir"
                       THEN /\ warnings' = warnings \o MemberWarnings(e, path)
                            /\ cargo_tomls' = Append(cargo_tomls, join(path, "Cargo.toml"))
                       ELSE UNCHANGED <<cargo_tomls, warnings>>
                  /\ UNCHANGED <<pc, result, returned>>
    /\ UNCHANGED <<outDir, log>>
    /\ UNCHANGED scanframe

\* line 188: Ok(cargo_tomls)
ScanReturn ==
    /\ pc = "scan_loop"
    /\ idx = Len(outDir)
    /\ Finish("Ok")
    /\ returned' = [ok |-> TRUE, tomls |-> cargo_tomls, error |-> <<>>]
    /\ UNCHANGED <<outDir, idx, cargo_tomls, warnings, log>>
    /\ UNCHANGED scanframe

ScanNext == ScanReadDir \/ ScanEntry \/ ScanReturn

ScanSpec == ScanInit /\ [][ScanNext]_vars

\* ========================================================= hash completion
\* crates_io_source and git_io_source (lines 18-50), called any number of
\* times with a prefetch capability that is a fixed map: the same source
\* always gets the same result.

\* names and urls
HashArgsA == {"foo", "bar"}
\* versions and revisions
HashArgsB == {"1.2.0", "abcdef0"}

\* Option<T>
None == <<>>
Some(x) == <<x>>

\* an anyhow::Error: the underlying error and the contexts wrapped around it
Error(cause, context) == [cause |-> cause, context |-> context]

\* what decides the result of PrefetchableSource::prefetch
PrefetchKeys == {"CratesIoSource", "GitSource"} \X HashArgsA \X HashArgsB
PrefetchResults ==
    [ok : {TRUE}, value : {"sha256-fakeFOO", "sha256-fakeBAR"}]
    \cup [ok : {FALSE}, value : {Error("prefetch failed", <<>>)}]

HashInit ==
    /\ ProjectInit
    /\ ScanIdle
    /\ prefetch \in [PrefetchKeys -> PrefetchResults]
    /\ HashIdle

hashframe == <<fsvars, now, callvars, prior, crate2nix_json_path, commands, scanvars, prefetch>>

\* lines 19-23 and 38-43: the source handed to prefetch, its hash unset
Prefetchable(call) ==
    IF call.fn = "crates_io_source"
      THEN [type |-> "CratesIoSource", name |-> call.a, version |-> call.b, sha256 |-> None]
      ELSE [type |-> "GitSource", url |-> call.a, rev |-> call.b, ref |-> None, sha256 |-> None]

PrefetchKey(p) ==
    IF p.type = "CratesIoSource"
      THEN <<p.type, p.name, p.version>>
      ELSE <<p.type, p.url, p.rev>>

\* prefetchable.to_string()
Display(p) ==
    IF p.type = "CratesIoSource" THEN <<p.name, p.version>> ELSE <<p.url, p.rev>>

\* the revision recorded where the hash belongs
CompletedRevAsHash(call, sha256) ==
    IF call.fn = "crates_io_source"
      THEN [variant |-> "CratesIo", name |-> call.a, version |-> call.b, sha256 |-> sha256]
      ELSE [variant |-> "Git", url |-> call.a, rev |-> call.b, sha256 |-> Some(call.b)]

\* lines 29-33 and 49: the completed config::Source
Completed(call, sha256) ==
    IF call.fn = "crates_io_source"
      THEN [variant |-> "CratesIo", name |-> call.a, version |-> call.b, sha256 |-> sha256]
      ELSE [variant |-> "Git", url |-> call.a, rev |-> call.b, sha256 |-> Some(sha256)]

\* lines 18-25 and 37-45
HashBegin(fn, a, b) ==
    /\ hpc = "idle"
    /\ hcall' = [fn |-> fn, a |-> a, b |-> b]
    /\ hpc' = "prefetch"
    /\ stderr' = <<<<"Prefetching ", Display(Prefetchable(hcall')), ": ">>>>
    /\ prefetched' = <<>>
    /\ hret' = NoHashRet
    /\ UNCHANGED hlast
    /\ UNCHANGED hashframe

CallCratesIoSource == \E a \in HashArgsA, b \in HashArgsB : HashBegin("crates_io_source", a, b)
CallGitIoSource == \E a \in HashArgsA, b \in HashArgsB : HashBegin("git_io_source", a, b)

\* lines 26-33 and 46-49: let sha256 = prefetchable.prefetch()?; eprintln!("done."); Ok(..)
HashPrefetch ==
    /\ hpc = "prefetch"
    /\ LET p == Prefetchable(hcall)
           out == prefetch[PrefetchKey(p)]
       IN  /\ prefetched' = Append(prefetched, [source |-> p, out |-> out])
           /\ IF out.ok
                THEN /\ stderr' = Append(stderr, <<"done.">>)
                     /\ hret' = [ok |-> TRUE, source |-> Completed(hcall, out.value)]
                ELSE /\ UNCHANGED stderr
                     /\ hret' = [ok |-> FALSE, error |-> out.value]
    /\ hpc' = "done"
    /\ UNCHANGED <<hcall, hlast>>
    /\ UNCHANGED hashframe

HashReturn ==
    /\ hpc = "done"
    /\ hpc' = "idle"
    /\ hlast' = [call |-> hcall, ret |-> hret]
    /\ hcall' = NoHashCall
    /\ stderr' = <<>>
    /\ prefetched' = <<>>
    /\ hret' = NoHashRet
    /\ UNCHANGED hashframe

HashNext == CallCratesIoSource \/ CallGitIoSource \/ HashPrefetch \/ HashReturn

HashSpec == HashInit /\ [][HashNext]_vars

\* ================================================================ claims
Done(method) == pc = "done" /\ op = method
InLog(e) == \E i \in 1..Len(log) : log[i] = e
\* the line holds the bytes of the marker, decodable or not
HoldsMarker(l) == l \in {"generated", "generated_invalid_utf8"}

\* ---- C1
\* C1 as stated: a regenerate_sources_nix call made while
\* crate2nix-sources.nix exists and none of its lines contains the marker
\* fails with RefuseOverwrite and leaves the file unchanged.
C1_AsStated ==
    (/\ Done("regenerate_sources_nix")
     /\ nix0.exists
     /\ \A i \in 1..Len(nix0.lines) : ~HoldsMarker(nix0.lines[i]))
    => (result = "RefuseOverwrite" /\ sources_nix = nix0)

\* C1 amended: when moreover crate2nix.json exists and crate2nix-sources.nix
\* can be opened, the call fails with RefuseOverwrite, has written nothing
\* and leaves the file as it was, whatever the file holds.
C1_RefusesUnmarked ==
    (/\ Done("regenerate_sources_nix")
     /\ cfgExists
     /\ nix0.exists /\ nix0.openable
     /\ \A i \in 1..Len(nix0.lines) : ~HoldsMarker(nix0.lines[i]))
    => (result = "RefuseOverwrite" /\ sources_nix = nix0 /\ log = <<>>)

\* an empty file and a file of plain lines have both been refused
C1_Witness ==
    /\ Done("regenerate_sources_nix")
    /\ result = "RefuseOverwrite"
    /\ cfgExists /\ nix0.exists /\ nix0.openable
    /\ nix0.lines = <<"plain", "plain">>
    /\ sources_nix = nix0

\* ---- C2
\* C2 as stated: given crate2nix.json exists, a regenerate_sources_nix call
\* made while crate2nix-sources.nix is absent or has a line containing the
\* marker succeeds, rewrites the file, and leaves a file with the marker.
C2_AsStated ==
    (/\ Done("regenerate_sources_nix")
     /\ cfgExists
     /\ \/ ~nix0.exists
        \/ \E i \in 1..Len(nix0.lines) : HoldsMarker(nix0.lines[i]))
    => (/\ result = "Ok"
        /\ log = <<"write_ok">>
        /\ nixExists /\ generated(nixLines))

\* C2 amended: given crate2nix.json exists, a regenerate_sources_nix call
\* made while crate2nix-sources.nix is absent, or can be opened and has a
\* line that is valid UTF-8 and contains the marker, attempts the write
\* exactly once whatever the old content; it fails only with the I/O error of
\* that write, and when it succeeds the file is the fresh rendering, which
\* holds the marker and can be opened, so the state again satisfies the
\* acceptance condition for the next call.
C2_AcceptsMarked ==
    (/\ Done("regenerate_sources_nix")
     /\ cfgExists
     /\ \/ ~nix0.exists
        \/ /\ nix0.openable
           /\ \E i \in 1..Len(nix0.lines) : nix0.lines[i] = "generated")
    => (/\ result \in {"Ok", "IoError"}
        /\ result = "Ok" =>
             /\ log = <<"write_ok">>
             /\ nixLines = Rendered
             /\ nixExists /\ nixOpenable
             /\ \E i \in 1..Len(nixLines) : nixLines[i] = "generated"
        /\ result = "IoError" => log = <<"write_err">>)

\* a marked file whose content differs from the rendering has been rewritten
C2_Witness ==
    /\ Done("regenerate_sources_nix")
    /\ result = "Ok"
    /\ nix0.exists /\ nix0.lines = <<"plain", "generated">>
    /\ nixLines = Rendered

\* ---- C3
\* C3: when crate2nix.json does not exist, regenerate_sources_nix fails with
\* ConfigNotFound before the descriptor is looked at (the marker check, the
\* write and the executor are never reached) and the descriptor is left
\* unchanged; fetch fails the same way without running the executor.
C3_ConfigNotFound ==
    /\ (~cfgExists /\ op \in {"regenerate_sources_nix", "fetch"})
         => pc \in {"regen_config", "done"}
    /\ (~cfgExists /\ (Done("regenerate_sources_nix") \/ Done("fetch")))
         => (/\ result = "ConfigNotFound"
             /\ log = <<>>
             /\ sources_nix = nix0
             /\ fetched_sources_symlink = link0)

\* ConfigNotFound has won over a descriptor that lacks the marker
C3_Witness ==
    /\ Done("regenerate_sources_nix")
    /\ ~cfgExists
    /\ result = "ConfigNotFound"
    /\ nix0.exists /\ ~generated(nix0.lines)

\* ---- C4
\* C4: a get_cargo_tomls call on a configuration with a Nix source always
\* takes the fetch branch, whatever the two modification times are: past the
\* decision the first effect of the call is the fetch, and the call returns
\* Ok only after the whole cycle (write, executor, scan) has run.
C4_NixForcesFetch ==
    (op = "get_cargo_tomls" /\ cfgExists /\ cfgValid /\ cfgNix)
    => (/\ pc \notin {"read_config", "decide"} => (log # <<>> /\ log[1] = "fetch")
        /\ (pc = "done" /\ result = "Ok")
             => log = <<"fetch", "write_ok", "exec_ok", "scan">>)

\* the fetch branch has been taken with the symlink strictly newer than the
\* configuration
C4_Witness ==
    /\ op = "get_cargo_tomls" /\ pc = "regen_config"
    /\ cfgExists /\ cfgNix
    /\ log = <<"fetch">>
    /\ linkState = "dir" /\ cfgMtime # NoTime /\ linkMtime > cfgMtime

\* ---- C5
\* S: the symlink's own modification time, the epoch when absent or unreadable
C5_S == IF linkState = "absent" \/ linkMtime = NoTime THEN 0 ELSE linkMtime
\* C: the configuration's modification time, the current time when unreadable
C5_C == IF ~cfgExists \/ cfgMtime = NoTime THEN now ELSE cfgMtime

\* C5: with no Nix source, the decision step of get_cargo_tomls takes the
\* fetch branch iff S < C, and goes straight to the scan otherwise.
C5_TimestampRule ==
    [][(pc = "decide" /\ pc' # "decide" /\ ~has_nix_sources)
         => /\ (pc' = "regen_config" /\ log' = <<"fetch">>) <=> (C5_S < C5_C)
            /\ (pc' = "scan" /\ log' = <<>>) <=> ~(C5_S < C5_C)]_vars

\* equal, readable timestamps have been judged not stale
C5_Witness ==
    /\ op = "get_cargo_tomls" /\ pc = "scan" /\ log = <<>>
    /\ linkState # "absent" /\ cfgExists
    /\ linkMtime # NoTime /\ linkMtime = cfgMtime

\* ---- C6
\* the symlink is absent or its time unreadable, or the configuration's time
\* is unreadable
C6_MetadataMissing ==
    \/ linkState = "absent" \/ linkMtime = NoTime
    \/ ~cfgExists \/ cfgMtime = NoTime

\* C6: whenever metadata is missing, the decision step of get_cargo_tomls
\* takes the fetch branch, for every value of the other timestamp.
C6_ConservativeBias ==
    [][(pc = "decide" /\ pc' # "decide" /\ C6_MetadataMissing)
         => (pc' = "regen_config" /\ log' = <<"fetch">>)]_vars

\* ---- C7
\* the call started with no Nix source and a symlink strictly newer than the
\* configuration
C7_Fresh ==
    /\ cfgExists /\ ~cfgNix /\ cfgMtime # NoTime
    /\ link0.state # "absent" /\ link0.mtime # NoTime
    /\ link0.mtime > cfgMtime

\* the call started with a parsed configuration without Nix source whose
\* time is past the symlink's
C7_Advanced ==
    /\ cfgExists /\ cfgValid /\ ~cfgNix /\ cfgMtime # NoTime
    /\ link0.state # "absent" /\ link0.mtime # NoTime
    /\ link0.mtime < cfgMtime

\* no write, no executor run, descriptor and symlink as they were
C7_PureRead ==
    /\ log \in {<<>>, <<"scan">>}
    /\ sources_nix = nix0
    /\ fetched_sources_symlink = link0

\* C7 as stated: a fresh call is a pure read, and a call made once the
\* configuration's time is past the symlink's regenerates the descriptor and
\* runs the executor.
C7_AsStated ==
    /\ (op = "get_cargo_tomls" /\ C7_Fresh) => C7_PureRead
    /\ (Done("get_cargo_tomls") /\ C7_Advanced)
         => (InLog("write_ok") /\ (InLog("exec_ok") \/ \E w \in ExecFailures : InLog(w)))

\* C7 amended: a fresh call is a pure read; a call made once the
\* configuration's time is past the symlink's enters the fetch cycle, in
\* which the executor is run iff the descriptor was regenerated, a failed
\* regeneration failing the call with the symlink untouched; and after a
\* refetch that left the symlink newer than the configuration the next call
\* is a pure read that goes straight to the scan of the new output.
C7_StalenessMonotone ==
    /\ (op = "get_cargo_tomls" /\ C7_Fresh) => C7_PureRead
    /\ (op = "get_cargo_tomls" /\ C7_Advanced /\ pc \notin {"read_config", "decide"})
         => (log # <<>> /\ log[1] = "fetch")
    /\ (Done("get_cargo_tomls") /\ C7_Advanced)
         => /\ InLog("write_ok") <=> (InLog("exec_ok") \/ \E w \in ExecFailures : InLog(w))
            /\ ~InLog("write_ok")
                 => (/\ result \in {"RefuseOverwrite", "IoError"}
                     /\ fetched_sources_symlink = link0)
    /\ (Done("get_cargo_tomls") /\ prior = "refetched" /\ C7_Fresh /\ cfgValid)
         => (result \in {"Ok", "DirectoryReadFailed"} /\ log = <<"scan">> /\ commands = <<>>)

\* a pure read right after the refetch that an advanced configuration caused
C7_Witness ==
    /\ Done("get_cargo_tomls")
    /\ prior = "refetched"
    /\ C7_Fresh
    /\ result = "Ok" /\ log = <<"scan">>

\* ---- C8
\* C8: in a get_cargo_tomls call the effects come in the order decision,
\* descriptor write, executor, scan: the write comes right after the
\* decision, the executor is run only right after a completed write, and a
\* call that decided to fetch scans only right after a successful executor
\* run.
C8_PhaseOrder ==
    op = "get_cargo_tomls" =>
      /\ \A i \in 1..Len(log) :
           /\ log[i] = "fetch" => i = 1
           /\ log[i] \in {"write_ok", "write_err"} => (i = 2 /\ log[1] = "fetch")
           /\ log[i] \in {"exec_ok"} \cup ExecFailures => (i = 3 /\ log[2] = "write_ok")
           /\ log[i] = "scan" => (i = 1 \/ (i = 4 /\ log[3] = "exec_ok"))
      /\ pc = "regen_write" => log = <<"fetch">>
      /\ pc = "exec" => log = <<"fetch", "write_ok">>
      /\ pc = "scan" => log \in {<<>>, <<"fetch", "write_ok", "exec_ok">>}

\* a stale call has gone through all four phases
C8_Witness ==
    /\ Done("get_cargo_tomls")
    /\ result = "Ok"
    /\ log = <<"fetch", "write_ok", "exec_ok", "scan">>

\* ---- C9
\* C9: a get_cargo_tomls call that decided to fetch and whose regeneration or
\* executor run failed returns that error and has not scanned, also when an
\* earlier output directory is still in place.
C9_FatalFailure ==
    (/\ Done("get_cargo_tomls")
     /\ log # <<>> /\ log[1] = "fetch"
     /\ ~(InLog("write_ok") /\ InLog("exec_ok")))
    => (/\ ~InLog("scan")
        /\ result \in {"ConfigNotFound", "RefuseOverwrite", "IoError", "ExecFailed"}
        /\ (\E w \in ExecFailures : InLog(w)) <=> result = "ExecFailed"
        /\ InLog("write_err") => result = "IoError"
        /\ result = "ConfigNotFound" <=> ~cfgExists)

\* the executor has failed with the previous output directory still there
C9_Witness ==
    /\ Done("get_cargo_tomls")
    /\ result = "ExecFailed"
    /\ InLog("exec_nonzero")
    /\ link0.state = "dir" /\ linkState = "dir"

\* ---- C10
C10_Execs == {i \in 1..Len(log) : log[i] \in {"exec_ok"} \cup ExecFailures}
C10_Writes == {i \in 1..Len(log) : log[i] \in {"write_ok", "write_err"}}

\* C10: in one fetch or get_cargo_tomls call the executor is run at most once
\* and the descriptor written at most once, and a failed write or run is the
\* last effect of the call.
C10_NoRetry ==
    op \in {"fetch", "get_cargo_tomls"} =>
      /\ Cardinality(C10_Execs) <= 1
      /\ Cardinality(C10_Writes) <= 1
      /\ \A i \in 1..Len(log) :
           log[i] \in {"write_err"} \cup ExecFailures => (i = Len(log) /\ pc = "done")

\* a fetch has ended on its one failed executor run
C10_Witness ==
    /\ Done("fetch")
    /\ result = "ExecFailed"
    /\ log = <<"write_ok", "exec_nospawn">>

\* ---- C11
C11_Dirs == {i \in 1..Len(outDir) : outDir[i].kind = "dir"}

\* C11: a scan that succeeds returns exactly one path
\* <project>/crate2nix-sources/<subdir>/Cargo.toml for every entry of the
\* output directory that is a directory, with or without Cargo.toml and
\* Cargo.lock, and no other path.
C11_Membership ==
    (pc = "done" /\ result = "Ok")
    => (/\ returned.ok
        /\ Len(returned.tomls) = Cardinality(C11_Dirs)
        /\ {returned.tomls[k] : k \in 1..Len(returned.tomls)}
             = {<<"project", "crate2nix-sources", outDir[i].name, "Cargo.toml">> : i \in C11_Dirs})

\* a directory with neither file is in the result, a plain file is not
C11_Witness ==
    /\ pc = "done" /\ result = "Ok"
    /\ Len(outDir) = 2
    /\ \E i, j \in 1..Len(outDir) :
         /\ outDir[i].kind = "dir" /\ ~outDir[i].toml /\ ~outDir[i].lock
         /\ outDir[j].kind = "file"
         /\ returned.tomls = <<<<"project", "crate2nix-sources", outDir[i].name, "Cargo.toml">>>>

\* ---- C12
\* the warnings that name the member directory of entry i
C12_WarningsFor(i) ==
    {k \in 1..Len(warnings) :
        warnings[k][4] = <<"project", "crate2nix-sources", outDir[i].name>>}

C12_Counts ==
    \A i \in 1..idx :
      LET e == outDir[i]
          n == Cardinality(C12_WarningsFor(i))
      IN  /\ (e.kind = "dir" /\ e.toml /\ ~e.lock)
               => (n = 1 /\ \A k \in C12_WarningsFor(i) : warnings[k][2] = "Cargo.lock")
          /\ (e.kind = "dir" /\ e.toml /\ e.lock) => n = 0
          /\ (e.kind = "dir" /\ ~e.toml /\ e.lock)
               => (n = 1 /\ \A k \in C12_WarningsFor(i) : warnings[k][2] = "Cargo.toml")
          /\ (e.kind = "dir" /\ ~e.toml /\ ~e.lock) => n = 2
          /\ e.kind # "dir" => n = 0

C12_NeverFatal ==
    (/\ pc = "done"
     /\ linkState = "dir"
     /\ \A i \in 1..Len(outDir) : outDir[i].kind # "error")
    => (result = "Ok" /\ returned.ok)

\* C12: in the scan, a member directory with Cargo.toml but no Cargo.lock
\* gets exactly one warning (about Cargo.lock), one with both files gets
\* none; the scan changes nothing in the output directory; and a scan in
\* which every entry could be read succeeds whatever was warned about.
C12_Warnings ==
    /\ [](C12_Counts /\ C12_NeverFatal)
    /\ [][outDir' = outDir]_vars

\* foo with both files, bar without Cargo.lock: two paths, one warning
C12_Witness ==
    /\ pc = "done" /\ result = "Ok"
    /\ outDir = <<[name |-> "foo", kind |-> "dir", toml |-> TRUE, lock |-> TRUE],
                  [name |-> "bar", kind |-> "dir", toml |-> TRUE, lock |-> FALSE]>>
    /\ Len(returned.tomls) = 2
    /\ warnings = <<<<"WARNING: No", "Cargo.lock", "found in",
                      <<"project", "crate2nix-sources", "bar">>>>>>

\* ---- C13
\* C13: whether or not a fetch has just run, a scan of an output directory
\* that cannot be listed (no symlink, dangling symlink) or that has an entry
\* that cannot be resolved fails with an error that names the directory, and
\* returns none of the manifest paths collected before the failure.
C13_DirectoryReadFailed ==
    (/\ pc = "done"
     /\ \/ linkState # "dir"
        \/ \E i \in 1..Len(outDir) : outDir[i].kind = "error")
    => (/\ result = "DirectoryReadFailed"
        /\ ~returned.ok
        /\ returned.tomls = <<>>
        /\ returned.error[2] = <<"project", "crate2nix-sources">>
        /\ linkState # "dir" => (returned.error[1] = "while iterating" /\ cargo_tomls = <<>>))

\* right after a fetch, the scan has collected one manifest, met an entry it
\* could not resolve, and returned the error alone
C13_Witness ==
    /\ pc = "done"
    /\ log = <<"fetch", "write_ok", "exec_ok", "scan">>
    /\ result = "DirectoryReadFailed"
    /\ Len(cargo_tomls) = 1
    /\ returned.tomls = <<>>
    /\ returned.error[1] = "while resolving entry in"

\* ---- C14
\* the one prefetch of the finished call has failed
C14_PrefetchFailed ==
    /\ hpc = "done"
    /\ Len(prefetched) = 1
    /\ ~prefetched[1].out.ok

\* C14: when prefetch fails, crates_io_source and git_io_source return an
\* error that holds the prefetch error and, wrapped around it, the identity
\* of the declaration; they return no source, and "done." is not printed.
C14_FailureWrapped ==
    C14_PrefetchFailed
    => (/\ ~hret.ok
        /\ "source" \notin DOMAIN hret
        /\ hret.error.cause = prefetched[1].out.value.cause
        /\ \E i \in 1..Len(hret.error.context) :
             hret.error.context[i] = Display(prefetched[1].source)
        /\ \A i \in 1..Len(stderr) : stderr[i] # <<"done.">>)

\* ---- C15
\* C15: with a prefetch capability that is a fixed map, a finished call has
\* invoked prefetch exactly once, on a source with the call's identity fields
\* and no hash; when that succeeded the call returns the declaration with the
\* same identity fields and exactly the hash prefetch gave; and a call with
\* the arguments of the previous call returns what the previous call returned.
C15_IdempotentCompletion ==
    /\ Len(prefetched) <= 1
    /\ hpc = "done" =>
         /\ Len(prefetched) = 1
         /\ prefetched[1].source.sha256 = <<>>
         /\ hcall.fn = "crates_io_source" =>
              (prefetched[1].source.name = hcall.a /\ prefetched[1].source.version = hcall.b)
         /\ hcall.fn = "git_io_source" =>
              (prefetched[1].source.url = hcall.a /\ prefetched[1].source.rev = hcall.b)
         /\ prefetched[1].out.ok =>
              /\ hret.ok
              /\ hcall.fn = "crates_io_source" =>
                   /\ hret.source.name = hcall.a
                   /\ hret.source.version = hcall.b
                   /\ hret.source.sha256 = prefetched[1].out.value
              /\ hcall.fn = "git_io_source" =>
                   /\ hret.source.url = hcall.a
                   /\ hret.source.rev = hcall.b
                   /\ hret.source.sha256 = <<prefetched[1].out.value>>
         /\ hlast.call = hcall => hret = hlast.ret

\* git_io_source has completed the same declaration twice in a row
C15_Witness ==
    /\ hpc = "done"
    /\ hcall.fn = "git_io_source"
    /\ hlast.call = hcall
    /\ hret.ok
    /\ hret = hlast.ret
    /\ hret.source.sha256 = <<"sha256-fakeBAR">>

\* ---- C16
\* the call is the first one after a crash inside the write, nothing having
\* been edited in between
C16_AfterCrash == Done("regenerate_sources_nix") /\ prior = "crashed"

\* C16 as stated: whatever point of the write the crash happened at, the
\* next regenerate_sources_nix gets past the marker check and rewrites the
\* file.
C16_AsStated ==
    C16_AfterCrash => (result # "RefuseOverwrite" /\ log # <<>>)

\* C16 amended: the next regenerate_sources_nix gets past the marker check
\* and attempts the rewrite iff the crash left no file or left a part of the
\* rendering that includes the marker line; a crash between the truncation
\* and the marker line leaves a file that the call refuses and does not touch.
C16_CrashTolerance ==
    C16_AfterCrash
    => (/\ cfgExists
        /\ (~nix0.exists \/ \E i \in 1..Len(nix0.lines) : nix0.lines[i] = "generated")
             => (result \in {"Ok", "IoError"} /\ log \in {<<"write_ok">>, <<"write_err">>})
        /\ (nix0.exists /\ \A i \in 1..Len(nix0.lines) : nix0.lines[i] # "generated")
             => (result = "RefuseOverwrite" /\ log = <<>> /\ sources_nix = nix0))

\* a crash has left the marker line alone, and the next call has rewritten
\* the file
C16_Witness ==
    /\ C16_AfterCrash
    /\ nix0.exists /\ nix0.lines = <<"generated">>
    /\ result = "Ok"
    /\ nixLines = Rendered

\* ---- C17
\* a step taken by regenerate_sources_nix, fetch or get_cargo_tomls (or the
\* crash of one), as opposed to an edit made from outside between calls
C17_StepOfCall == pc # "idle" \/ pc' # "idle"

\* C17: no step of a call creates, deletes or rewrites crate2nix.json or
\* changes its modification time, and none invokes prefetch or starts a hash
\* completion.
C17_ConfigReadOnly ==
    [][C17_StepOfCall
         => /\ UNCHANGED <<cfgExists, cfgMtime, cfgValid, cfgNix>>
            /\ UNCHANGED <<prefetched, hpc, hcall, hret>>]_vars

\* a whole regenerate-and-fetch cycle has run on a configuration with a Nix
\* source, and no prefetch was made
C17_Witness ==
    /\ Done("get_cargo_tomls")
    /\ cfgExists /\ cfgNix /\ cfgMtime = UNIX_EPOCH + 1
    /\ InLog("write_ok") /\ InLog("exec_ok") /\ InLog("scan")
    /\ prefetched = <<>> /\ hpc = "idle"

\* ---- C18
\* the executor has run only inside fetch, after the descriptor was written,
\* once for each exec event of the call
C18_OnlyFromFetch ==
    /\ commands # <<>>
         => /\ op \in {"fetch", "get_cargo_tomls"}
            /\ InLog("write_ok")
            /\ op = "get_cargo_tomls" => InLog("fetch")
    /\ Len(commands) =
         Cardinality({i \in 1..Len(log) : log[i] \in {"exec_ok"} \cup ExecFailures})

\* regenerate_sources_nix and the scan spawn nothing
C18_NoOtherCaller ==
    (op = "regenerate_sources_nix" \/ pc = "scan") => commands' = commands

\* the shape the claim gives to every invocation
C18_Shape(c) ==
    /\ c.program = "nix"
    /\ c.current_dir = project_dir
    /\ c.args = <<"--show-trace", "build", "-f", sources_nix_path, "fetchedSources",
                  "-o", fetched_sources_symlink_path>>

\* C18: the executor is invoked only from fetch, never from
\* regenerate_sources_nix or the scan, and every invocation runs in the
\* configuration's parent directory with the arguments --show-trace build -f
\* <project>/crate2nix-sources.nix fetchedSources -o <project>/crate2nix-sources,
\* the -o path being the one get_cargo_tomls stats and scans.
C18_ExecutorChokepoint ==
    /\ [](C18_OnlyFromFetch /\ \A i \in 1..Len(commands) : C18_Shape(commands[i]))
    /\ [][C18_NoOtherCaller]_vars

\* the part of C18 that does not depend on how the paths are converted
C18_Chokepoint == [](C18_OnlyFromFetch) /\ [][C18_NoOtherCaller]_vars
====
